---- MODULE Spec2Model ----
(***************************************************************************)
(* EARL_Agent (src/earl.py): an agent that keeps a weight per action,      *)
(* mutates the weights on a self-tuned cadence, fires actions at random    *)
(* according to the weights and moves the weights of the fired actions by  *)
(* the change of an external fitness score.                                *)
(*                                                                         *)
(* Real numbers are exact rationals <<n, d>> in lowest terms with d > 0.   *)
(* Python indexes actions 0..N-1; the model indexes them 1..N.             *)
(***************************************************************************)
EXTENDS Integers, Sequences, FiniteSets, TLC

(***************************************************************************)
(* Bounds of the model.                                                    *)
(***************************************************************************)
\* number of actions in action_space
NumActions == 2
\* at most MaxTicks calls of tick() are made
MaxTicks == 4

Idx == 1..NumActions

(***************************************************************************)
(* Exact rational arithmetic.                                              *)
(***************************************************************************)
Abs(x) == IF x < 0 THEN -x ELSE x

RECURSIVE GCD(_, _)
GCD(a, b) == IF b = 0 THEN a ELSE GCD(b, a % b)

\* the rational n/d (d # 0) in lowest terms with a positive denominator
Rat(n, d) ==
    LET s == IF d < 0 THEN -1 ELSE 1
        g == GCD(Abs(n), Abs(d))
    IN  <<(s * n) \div g, (s * d) \div g>>

Zero == <<0, 1>>
One == <<1, 1>>
RInt(k) == <<k, 1>>

\* sums, products and comparisons cancel common factors before multiplying
RAdd(x, y) ==
    LET g == GCD(x[2], y[2])
    IN  Rat(x[1] * (y[2] \div g) + y[1] * (x[2] \div g), (x[2] \div g) * y[2])
RMul(x, y) ==
    LET g1 == GCD(Abs(x[1]), y[2])
        g2 == GCD(Abs(y[1]), x[2])
    IN  Rat((x[1] \div g1) * (y[1] \div g2), (x[2] \div g2) * (y[2] \div g1))
RNeg(x) == <<-x[1], x[2]>>
RSub(x, y) == RAdd(x, RNeg(y))
\* x / y for y # 0
RDiv(x, y) == RMul(x, IF y[1] < 0 THEN <<-y[2], -y[1]>> ELSE <<y[2], y[1]>>)
RLess(x, y) ==
    LET g == GCD(x[2], y[2])
    IN  x[1] * (y[2] \div g) < y[1] * (x[2] \div g)
RLeq(x, y) ==
    LET g == GCD(x[2], y[2])
    IN  x[1] * (y[2] \div g) <= y[1] * (x[2] \div g)

RECURSIVE RSumTo(_, _)
RSumTo(l, k) == IF k = 0 THEN Zero ELSE RAdd(RSumTo(l, k - 1), l[k])

\* Python's sum(l)
RSum(l) == RSumTo(l, Len(l))

\* Python's max(a, b) and min(a, b) on integers
IMax(a, b) == IF b > a THEN b ELSE a
IMin(a, b) == IF b < a THEN b ELSE a

\* min(1, max(0, x))
Clip(x) == IF RLeq(x, Zero) THEN Zero ELSE IF RLess(One, x) THEN One ELSE x

(***************************************************************************)
(* State of one EARL_Agent.                                                *)
(***************************************************************************)
VARIABLES
    weight_variance_threshold,  \* configuration, set by __init__
    mutation_strength,
    min_mutation_step,
    max_mutation_step,
    history_bias_strength,
    history_decay_factor,
    alpha,
    weight_map,                 \* sequence of NumActions rationals
    history,                    \* sequence of NumActions rationals
    mutation_step,
    last_fitness,
    ticks,
    \* what the last call of tick() did (locals of tick and its external calls)
    pre,                        \* the agent's fields when the call started
    outcome,                    \* "new", "returned", "action_raised", "fitness_raised"
    mutated,                    \* whether _mutate_weight_map ran
    drawn,                      \* the random.random() values the mutation pass drew
    sampled,                    \* the weight map the sampling loop read
    indices,                    \* tick's local list indices
    delta_fitness,              \* tick's local delta_fitness (0 if not reached)
    calls,                      \* external calls in order: i for action i, 0 for fitness_func
    started                     \* number of calls of tick() made so far

config == <<weight_variance_threshold, mutation_strength, min_mutation_step,
            max_mutation_step, history_bias_strength, history_decay_factor, alpha>>

vars == <<weight_variance_threshold, mutation_strength, min_mutation_step,
          max_mutation_step, history_bias_strength, history_decay_factor, alpha,
          weight_map, history, mutation_step, last_fitness, ticks,
          pre, outcome, mutated, drawn, sampled, indices, delta_fitness, calls, started>>

(***************************************************************************)
(* Pure helpers of the agent.                                              *)
(***************************************************************************)
\* faulty variant of _normalize: returns the list undivided
_normalize_undivided(l) == l

\* EARL_Agent._normalize
_normalize(l) ==
    LET total == RSum(l)
        n == Len(l)
    IN  IF total # Zero
        THEN [i \in 1..n |-> RDiv(l[i], total)]
        ELSE [i \in 1..n |-> Rat(1, n)]

\* faulty variant of _variance: the sum of squared deviations, not divided by len(l)
_variance_undivided(l) ==
    IF l = <<>> THEN Zero
    ELSE LET mean == RDiv(RSum(l), RInt(Len(l)))
             sq == [i \in 1..Len(l) |-> RMul(RSub(l[i], mean), RSub(l[i], mean))]
         IN  RSum(sq)

\* EARL_Agent._variance
_variance(l) ==
    IF l = <<>> THEN Zero
    ELSE LET mean == RDiv(RSum(l), RInt(Len(l)))
             sq == [i \in 1..Len(l) |-> RMul(RSub(l[i], mean), RSub(l[i], mean))]
         IN  RDiv(RSum(sq), RInt(Len(l)))

\* faulty variant of _adjust_mutation_step: no ceiling at max_mutation_step
_adjust_mutation_step_unbounded(wm, ms) ==
    IF RLess(_variance(wm), weight_variance_threshold)
    THEN IMax(min_mutation_step, ms - 1)
    ELSE ms + 1

\* faulty variant of _adjust_mutation_step: the two branches exchanged
_adjust_mutation_step_swapped(wm, ms) ==
    IF RLess(_variance(wm), weight_variance_threshold)
    THEN IMin(max_mutation_step, ms + 1)
    ELSE IMax(min_mutation_step, ms - 1)

\* EARL_Agent._adjust_mutation_step: the new value of mutation_step
_adjust_mutation_step(wm, ms) ==
    IF RLess(_variance(wm), weight_variance_threshold)
    THEN IMax(min_mutation_step, ms - 1)
    ELSE IMin(max_mutation_step, ms + 1)

\* random.uniform(a, b) for the underlying random.random() value r
uniform(a, b, r) == RAdd(a, RMul(RSub(b, a), r))

\* EARL_Agent._mutate_weight_map; rs[i] is the random.random() value drawn for weight i
_mutate_weight_map(wm, rs) ==
    [i \in 1..Len(wm) |->
        Clip(RAdd(wm[i], uniform(RNeg(mutation_strength), mutation_strength, rs[i])))]

\* faulty variant of the mutation test: counts the ticks from 1
MutationDueFromOne(t, ms) == (t + 1) % ms = 0

\* tick: "if not self.ticks % self.mutation_step"
MutationDue(t, ms) == t % ms = 0

\* faulty variant of the sampling loop: walks the weights from the last index down
RECURSIVE SampleLoopDown(_, _, _, _, _)
SampleLoopDown(wm, rs, bad, i, acc) ==
    IF i > Len(wm) THEN acc
    ELSE LET j == Len(wm) + 1 - i
         IN  IF RLess(rs[j], wm[j])
             THEN LET acc2 == [indices |-> Append(acc.indices, j),
                               calls |-> Append(acc.calls, j),
                               raised |-> (j = bad)]
                  IN  IF j = bad THEN acc2 ELSE SampleLoopDown(wm, rs, bad, i + 1, acc2)
             ELSE SampleLoopDown(wm, rs, bad, i + 1, acc)

\* tick's sampling loop from index i on; rs[i] is the value drawn for weight i and
\* bad is the index of the action that raises when invoked (0: none raises)
RECURSIVE SampleLoop(_, _, _, _, _)
SampleLoop(wm, rs, bad, i, acc) ==
    IF i > Len(wm) THEN acc
    ELSE IF RLess(rs[i], wm[i])
         THEN LET acc2 == [indices |-> Append(acc.indices, i),
                           calls |-> Append(acc.calls, i),
                           raised |-> (i = bad)]
              IN  IF i = bad THEN acc2 ELSE SampleLoop(wm, rs, bad, i + 1, acc2)
         ELSE SampleLoop(wm, rs, bad, i + 1, acc)

Sample(wm, rs, bad) ==
    SampleLoop(wm, rs, bad, 1, [indices |-> <<>>, calls |-> <<>>, raised |-> FALSE])

\* the body of _adjust_weight_map's loop for one fired index
AdjustOne(st, weight_modifier, index) ==
    LET h == RMul(st.history[index], history_decay_factor)
        history_bias == RAdd(One, RMul(h, history_bias_strength))
        w == Clip(RAdd(st.weight_map[index],
                       RMul(RMul(weight_modifier, alpha), history_bias)))
    IN  [weight_map |-> [st.weight_map EXCEPT ![index] = w],
         history |-> [st.history EXCEPT ![index] = h]]

RECURSIVE AdjustLoop(_, _, _, _)
AdjustLoop(st, weight_modifier, ind, k) ==
    IF k > Len(ind) THEN st
    ELSE AdjustLoop(AdjustOne(st, weight_modifier, ind[k]), weight_modifier, ind, k + 1)

\* faulty variant of _adjust_weight_map: renormalizes also when nothing fired
_adjust_weight_map_always(wm, hist, delta, ind) ==
    LET st == [weight_map |-> wm, history |-> hist]
        st2 == IF ind = <<>> THEN st
               ELSE AdjustLoop(st, Rat(delta, Len(ind)), ind, 1)
    IN  [weight_map |-> _normalize(st2.weight_map), history |-> st2.history]

\* EARL_Agent._adjust_weight_map: the weight map and history it leaves
_adjust_weight_map(wm, hist, delta, ind) ==
    LET st == [weight_map |-> wm, history |-> hist]
    IN  IF ind = <<>> THEN st
        ELSE LET weight_modifier == Rat(delta, Len(ind))
                 st2 == AdjustLoop(st, weight_modifier, ind, 1)
             IN  [weight_map |-> _normalize(st2.weight_map), history |-> st2.history]

\* faulty variant of the history update: a flat outcome counts as a success
HistoryOneFlat(hist, delta, index) ==
    IF delta >= 0
    THEN [hist EXCEPT ![index] = RAdd(hist[index], One)]
    ELSE [hist EXCEPT ![index] = Zero]

\* tick's history update for one fired index
HistoryOne(hist, delta, index) ==
    IF delta > 0
    THEN [hist EXCEPT ![index] = RAdd(hist[index], One)]
    ELSE [hist EXCEPT ![index] = Zero]

RECURSIVE HistoryLoop(_, _, _, _)
HistoryLoop(hist, delta, ind, k) ==
    IF k > Len(ind) THEN hist
    ELSE HistoryLoop(HistoryOne(hist, delta, ind[k]), delta, ind, k + 1)

\* faulty variant of the history update: a non-improving tick resets every action
HistoryUpdateAll(hist, delta, ind) ==
    IF delta > 0 THEN HistoryLoop(hist, delta, ind, 1)
    ELSE [i \in 1..Len(hist) |-> Zero]

\* tick, lines 117-122
HistoryUpdate(hist, delta, ind) == HistoryLoop(hist, delta, ind, 1)

(***************************************************************************)
(* Inputs: configurations, random.random() values, fitness scores.         *)
(***************************************************************************)
DefaultWeightVarianceThreshold == <<1, 2>>
DefaultMutationStrength == <<1, 10>>
DefaultMinMutationStep == 3
DefaultMaxMutationStep == 10
DefaultHistoryBiasStrength == <<1, 10>>
DefaultHistoryDecayFactor == <<9, 10>>
DefaultAlpha == <<1, 1>>

DefaultConfig ==
    <<DefaultWeightVarianceThreshold, DefaultMutationStrength, DefaultMinMutationStep,
      DefaultMaxMutationStep, DefaultHistoryBiasStrength, DefaultHistoryDecayFactor,
      DefaultAlpha>>

\* a low threshold, strong mutation, a short mutation interval
EagerConfig == <<Rat(1, 20), Rat(1, 2), 1, 3, Rat(1, 2), Rat(1, 2), Rat(1, 2)>>

\* min_mutation_step above max_mutation_step (the constructor accepts it)
InvertedConfig == <<Rat(1, 20), Rat(1, 2), 3, 1, Rat(1, 2), Rat(1, 2), One>>

Configs == {DefaultConfig, EagerConfig, InvertedConfig}

\* values random.random() returns (it returns values in [0, 1))
RandomVals == {Zero, Rat(3, 4)}

\* values fitness_func returns
FitnessVals == {0, 1}

Snapshot ==
    [weight_map |-> weight_map, history |-> history, mutation_step |-> mutation_step,
     last_fitness |-> last_fitness, ticks |-> ticks]

\* EARL_Agent.__init__
Init ==
    /\ \E c \in Configs :
        /\ weight_variance_threshold = c[1]
        /\ mutation_strength = c[2]
        /\ min_mutation_step = c[3]
        /\ max_mutation_step = c[4]
        /\ history_bias_strength = c[5]
        /\ history_decay_factor = c[6]
        /\ alpha = c[7]
    /\ \E raw \in [Idx -> RandomVals] : weight_map = _normalize(raw)
    /\ last_fitness \in FitnessVals
    /\ mutation_step = min_mutation_step
    /\ history = [i \in Idx |-> Zero]
    /\ ticks = 0
    /\ pre = [weight_map |-> weight_map, history |-> history,
              mutation_step |-> mutation_step, last_fitness |-> last_fitness,
              ticks |-> 0]
    /\ outcome = "new"
    /\ mutated = FALSE
    /\ drawn = [i \in Idx |-> Zero]
    /\ sampled = weight_map
    /\ indices = <<>>
    /\ delta_fitness = 0
    /\ calls = <<0>>
    /\ started = 0

(***************************************************************************)
(* tick().  rm are the values the mutation pass draws, rs those the        *)
(* sampling loop draws; each step of tick is evaluated once and its result *)
(* handed to the next.                                                     *)
(***************************************************************************)
NoDraw == [i \in Idx |-> Zero]

\* the mutation pass draws values only when it runs
MutationDraws(due) == IF due THEN [Idx -> RandomVals] ELSE {NoDraw}

\* tick() runs to its end
TickReturns ==
    /\ started < MaxTicks
    /\ started' = started + 1
    /\ \E ms \in {_adjust_mutation_step(weight_map, mutation_step)} :
       \E due \in {MutationDue(ticks, ms)} :
       \E rm \in MutationDraws(due) :
       \E wm \in {IF due THEN _mutate_weight_map(weight_map, rm) ELSE weight_map} :
       \E rs \in [Idx -> RandomVals] :
       \E s \in {Sample(wm, rs, 0)} :
       \E fitness \in FitnessVals :
       \E delta \in {fitness - last_fitness} :
       \E a \in {_adjust_weight_map(wm, history, delta, s.indices)} :
            /\ pre' = Snapshot
            /\ mutation_step' = ms
            /\ mutated' = due
            /\ drawn' = rm
            /\ sampled' = wm
            /\ indices' = s.indices
            /\ calls' = Append(s.calls, 0)
            /\ delta_fitness' = delta
            /\ weight_map' = a.weight_map
            /\ last_fitness' = fitness
            /\ history' = HistoryUpdate(a.history, delta, s.indices)
            /\ ticks' = ticks + 1
            /\ outcome' = "returned"
    /\ UNCHANGED config

\* faulty variant of Propagate: the tick is rolled back
PropagateRolledBack(ms, wm) ==
    UNCHANGED <<mutation_step, weight_map, last_fitness, history, ticks>>

\* what tick() leaves when an exception ends it at line 108 or 110: the fields
\* written so far keep their new values, the others were not reached
Propagate(ms, wm) ==
    /\ mutation_step' = ms
    /\ weight_map' = wm
    /\ UNCHANGED <<last_fitness, history, ticks>>

\* an action raises: the exception leaves tick() at line 108
TickActionRaises ==
    /\ started < MaxTicks
    /\ started' = started + 1
    /\ \E ms \in {_adjust_mutation_step(weight_map, mutation_step)} :
       \E due \in {MutationDue(ticks, ms)} :
       \E rm \in MutationDraws(due) :
       \E wm \in {IF due THEN _mutate_weight_map(weight_map, rm) ELSE weight_map} :
       \E rs \in [Idx -> RandomVals], bad \in Idx :
       \E s \in {Sample(wm, rs, bad)} :
            /\ s.raised
            /\ pre' = Snapshot
            /\ mutated' = due
            /\ drawn' = rm
            /\ sampled' = wm
            /\ indices' = s.indices
            /\ calls' = s.calls
            /\ delta_fitness' = 0
            /\ outcome' = "action_raised"
            /\ Propagate(ms, wm)
    /\ UNCHANGED config

\* fitness_func raises: the exception leaves tick() at line 110
TickFitnessRaises ==
    /\ started < MaxTicks
    /\ started' = started + 1
    /\ \E ms \in {_adjust_mutation_step(weight_map, mutation_step)} :
       \E due \in {MutationDue(ticks, ms)} :
       \E rm \in MutationDraws(due) :
       \E wm \in {IF due THEN _mutate_weight_map(weight_map, rm) ELSE weight_map} :
       \E rs \in [Idx -> RandomVals] :
       \E s \in {Sample(wm, rs, 0)} :
            /\ pre' = Snapshot
            /\ mutated' = due
            /\ drawn' = rm
            /\ sampled' = wm
            /\ indices' = s.indices
            /\ calls' = Append(s.calls, 0)
            /\ delta_fitness' = 0
            /\ outcome' = "fitness_raised"
            /\ Propagate(ms, wm)
    /\ UNCHANGED config

Next == TickReturns \/ TickActionRaises \/ TickFitnessRaises

Spec == Init /\ [][Next]_vars

TypeOK ==
    /\ Len(weight_map) = NumActions
    /\ Len(history) = NumActions
    /\ ticks \in 0..MaxTicks

(***************************************************************************)
(* Properties.                                                             *)
(***************************************************************************)
InUnit(x) == RLeq(Zero, x) /\ RLeq(x, One)
AllInUnit(l) == \A i \in 1..Len(l) : InUnit(l[i])
Fired == {indices[k] : k \in 1..Len(indices)}
IsDefault == config = DefaultConfig
Raised == outcome \in {"action_raised", "fitness_raised"}

\* C1: after a completed tick() every weight is in [0,1], and if at least one
\* action fired in it the weights sum to 1.
C1_WeightsInUnitSumOne ==
    outcome = "returned" =>
        /\ AllInUnit(weight_map)
        /\ (indices # <<>> => RSum(weight_map) = One)

\* a completed tick that fired an action on a mutated map whose sum was not 1
C1_Witness ==
    /\ outcome = "returned"
    /\ indices # <<>>
    /\ mutated
    /\ RSum(sampled) # One
    /\ weight_map # sampled

\* C2: with min_mutation_step <= max_mutation_step, mutation_step is within
\* [min_mutation_step, max_mutation_step] after construction and after every tick().
C2_MutationStepInRange ==
    min_mutation_step <= max_mutation_step =>
        /\ min_mutation_step <= mutation_step
        /\ mutation_step <= max_mutation_step
        /\ (outcome = "new" => mutation_step = min_mutation_step)

\* a tick that started at the ceiling with a variance at or above the threshold
C2_Witness ==
    /\ outcome # "new"
    /\ min_mutation_step < max_mutation_step
    /\ pre.mutation_step = max_mutation_step
    /\ ~RLess(_variance(pre.weight_map), weight_variance_threshold)
    /\ mutation_step = max_mutation_step

\* C3 as stated: after a tick() in which no action fired the weight map is a valid
\* distribution (entries in [0,1], sum 1) and none of its entries changed in the tick.
C3_AsStated ==
    (outcome = "returned" /\ indices = <<>>) =>
        /\ AllInUnit(weight_map)
        /\ RSum(weight_map) = One
        /\ weight_map = pre.weight_map

\* C3 amended: after a tick() in which no action fired every weight is in [0,1] and
\* the weight map is the one the mutation step left, not renormalized; if no
\* mutation pass ran in the tick it is the weight map from before the tick.
C3_NoFireKeepsMutatedMap ==
    (outcome = "returned" /\ indices = <<>>) =>
        /\ AllInUnit(weight_map)
        /\ weight_map = sampled
        /\ (~mutated => weight_map = pre.weight_map)
        /\ (~mutated /\ RSum(pre.weight_map) = One => RSum(weight_map) = One)

\* a completed tick without mutation in which nothing fired, and one before it
C3_Witness ==
    /\ outcome = "returned"
    /\ indices = <<>>
    /\ ~mutated
    /\ pre.ticks > 0
    /\ RSum(weight_map) = One

\* C4: for every fired index i of a completed tick, history[i] is
\* (history[i] before the tick) * history_decay_factor + 1 when delta_fitness > 0,
\* and exactly 0 when delta_fitness <= 0.
C4_HistoryOfFired ==
    outcome = "returned" =>
        \A i \in Fired :
            /\ delta_fitness > 0 =>
                history[i] = RAdd(RMul(pre.history[i], history_decay_factor), One)
            /\ delta_fitness <= 0 => history[i] = Zero

\* a fired action with a success streak is rewarded again
C4_Witness ==
    /\ outcome = "returned"
    /\ delta_fitness > 0
    /\ \E i \in Fired : pre.history[i] # Zero /\ history[i] # RAdd(pre.history[i], One)

\* the positions of calls that are action invocations
ActionCalls == {k \in 1..Len(calls) : calls[k] # 0}

\* C5: in one tick() the fired actions are invoked in increasing index order, each
\* at most once, then fitness_func exactly once, after every action; no action is
\* invoked after fitness_func.
C5_CallOrder ==
    outcome # "new" =>
        /\ \A j, k \in ActionCalls : j < k => calls[j] < calls[k]
        /\ \A k \in 1..Len(calls) : calls[k] = 0 => k = Len(calls)
        /\ [k \in ActionCalls |-> calls[k]] = [k \in 1..Len(indices) |-> indices[k]]
        /\ (outcome = "returned" => Len(calls) = Len(indices) + 1 /\ calls[Len(calls)] = 0)

\* a completed tick in which every action fired
C5_Witness ==
    /\ outcome = "returned"
    /\ Len(indices) = NumActions
    /\ NumActions > 1

\* C6: when an action or fitness_func raises, tick() is not rolled back: the adjusted
\* mutation_step and the mutated weight map stay, the actions invoked stay invoked,
\* and last_fitness, history and the tick counter keep their values from before.
C6_NoRollback ==
    Raised =>
        /\ mutation_step =
              (IF RLess(_variance(pre.weight_map), weight_variance_threshold)
               THEN IMax(min_mutation_step, pre.mutation_step - 1)
               ELSE IMin(max_mutation_step, pre.mutation_step + 1))
        /\ weight_map = sampled
        /\ (mutated =>
              weight_map = [i \in Idx |->
                  Clip(RAdd(pre.weight_map[i],
                            uniform(RNeg(mutation_strength), mutation_strength, drawn[i])))])
        /\ (~mutated => weight_map = pre.weight_map)
        /\ last_fitness = pre.last_fitness
        /\ history = pre.history
        /\ ticks = pre.ticks
        /\ (outcome = "action_raised" => calls = indices /\ calls # <<>>)
        /\ (outcome = "fitness_raised" => calls = Append(indices, 0))

\* the second action raises after the first was invoked, in a tick that changed
\* mutation_step and mutated the weights
C6_Witness ==
    /\ outcome = "action_raised"
    /\ Len(calls) = 2
    /\ mutated
    /\ weight_map # pre.weight_map
    /\ mutation_step # pre.mutation_step
    /\ pre.history # [i \in Idx |-> Zero]

\* the value step 1 of tick() gives mutation_step
ExpectedStep ==
    IF RLess(_variance(pre.weight_map), weight_variance_threshold)
    THEN IMax(min_mutation_step, pre.mutation_step - 1)
    ELSE IMin(max_mutation_step, pre.mutation_step + 1)

\* C7 as stated: tick() sets mutation_step from the weight map of the previous tick's
\* end, down by 1 (floor min) below the threshold, up by 1 (ceiling max) otherwise,
\* and it changes by at most 1 per tick.
C7_AsStated ==
    outcome # "new" =>
        /\ mutation_step = ExpectedStep
        /\ Abs(mutation_step - pre.mutation_step) <= 1

\* C7 amended: the same, with the change bounded by 1 per tick when
\* min_mutation_step <= max_mutation_step.
C7_StepFollowsVariance ==
    outcome # "new" =>
        /\ mutation_step = ExpectedStep
        /\ (min_mutation_step <= max_mutation_step =>
              Abs(mutation_step - pre.mutation_step) <= 1)
        /\ (RLess(_variance(pre.weight_map), weight_variance_threshold)
              => mutation_step <= IMax(pre.mutation_step, min_mutation_step))
        /\ (~RLess(_variance(pre.weight_map), weight_variance_threshold)
              => mutation_step >= IMin(pre.mutation_step, max_mutation_step))

\* a tick that lowered mutation_step after an earlier one had raised it
C7_Witness ==
    /\ outcome # "new"
    /\ min_mutation_step <= max_mutation_step
    /\ mutation_step = pre.mutation_step - 1
    /\ RLess(_variance(pre.weight_map), weight_variance_threshold)

\* C8: a mutation pass runs in a tick exactly when the tick counter at its start is
\* divisible by mutation_step as recomputed in that tick (so counter 0 always
\* mutates); it runs before sampling, writes every weight clipped to [0,1], and the
\* sampling loop reads the result without renormalization.
C8_MutationSchedule ==
    outcome # "new" =>
        /\ (mutated <=> pre.ticks % mutation_step = 0)
        /\ (pre.ticks = 0 => mutated)
        /\ (mutated =>
              /\ \A i \in Idx :
                    sampled[i] =
                        Clip(RAdd(pre.weight_map[i],
                                  uniform(RNeg(mutation_strength), mutation_strength, drawn[i])))
              /\ AllInUnit(sampled))
        /\ (~mutated => sampled = pre.weight_map)
        /\ \A i \in Idx : i \in Fired => sampled[i] # Zero

\* a mutation pass on a later tick, with a clipped weight and a sum other than 1
C8_Witness ==
    /\ outcome # "new"
    /\ mutated
    /\ pre.ticks = 2
    /\ mutation_step = 2
    /\ RSum(sampled) # One
    /\ \E i \in Idx : sampled[i] = One /\ pre.weight_map[i] # One

\* C9: a completed tick() leaves history[i] unchanged for every index i that did not
\* fire, and when nothing fired it leaves the whole history and the weight map of
\* the mutation step unchanged.
C9_FrameOfUnfired ==
    outcome = "returned" =>
        /\ \A i \in Idx \ Fired : history[i] = pre.history[i]
        /\ (indices = <<>> => history = pre.history /\ weight_map = sampled)

\* an action with a success streak stays out of a tick that another action fires in
C9_Witness ==
    /\ outcome = "returned"
    /\ indices # <<>>
    /\ delta_fitness <= 0
    /\ \E i \in Idx \ Fired : pre.history[i] # Zero

\* C10: the variance that step 1 of a tick() computes is at most 1/4, so under the
\* default configuration it is below weight_variance_threshold, mutation_step is 3
\* after every tick(), and a mutation pass runs exactly on the ticks whose counter
\* is a multiple of 3.
C10_DefaultCadence ==
    /\ outcome # "new" => RLeq(_variance(pre.weight_map), Rat(1, 4))
    /\ IsDefault =>
        /\ mutation_step = DefaultMinMutationStep
        /\ (outcome # "new" =>
              /\ RLess(_variance(pre.weight_map), weight_variance_threshold)
              /\ (mutated <=> pre.ticks % 3 = 0))

\* the default agent mutates again on the tick whose counter is 3
C10_Witness ==
    /\ IsDefault
    /\ outcome = "returned"
    /\ mutated
    /\ pre.ticks = 3

====
